---- MODULE Spec2Model ----
(***************************************************************************)
(* AutoSub-AI: subtitle normalization (services/geminiService.ts), the     *)
(* live subtitle locator of the player (components/SubtitleOverlay.tsx)    *)
(* and the burned-in video export of the application (App.tsx).            *)
(*                                                                         *)
(* Times of subtitle segments are counted in ticks of half a second, so    *)
(* that the 1.5 s minimal duration of the normalization is 3 ticks.        *)
(***************************************************************************)
EXTENDS Integers, Sequences, FiniteSets, TLC

\* ------------------------------------------------------------------ bounds
\* longest raw segment list the collaborator returns
MaxLen == 3
\* largest raw start/end time (ticks)
MaxTime == 3

\* export jobs that can be started in one run (job slots are never reused)
MaxJobs == 2
\* files the user can select in one run (each selection makes a fresh URL)
MaxFiles == 2
\* length of the source video in ticks of 0.1 s
VideoDuration == 4
\* the settings (view mode, style, format) are changed at most this often
MaxChanges == 1

\* ------------------------------------------------------- program constants
\* offlineVideo.currentTime >= offlineVideo.duration - 0.1, in ticks of 0.1 s
StopEpsilon == 1
\* segment.endTime = segment.startTime + 1.5 (seconds), in ticks
MinDuration == 3
\* the largest export size
MAX_WIDTH == 1920
MAX_HEIGHT == 1080
\* the size of a canvas element that has not been sized
DefaultCanvasWidth == 300
DefaultCanvasHeight == 150

VARIABLES
    \* --- normalization (postProcessSubtitles)
    rawSubtitles,       \* the argument: the collaborator's parsed segment list
    processed,          \* the returned list
    normPc,             \* "raw" while the list arrives, "done" after the call,
                        \* "loaded" once the result is the segment store
    \* --- Player (live locator)
    subtitles,          \* the segment store (App state, Player prop)
    videoTime,          \* localVideoRef.current.currentTime (ticks)
    videoPaused,        \* localVideoRef.current.paused
    activeSubIndexRef,  \* cursor: 0-based index of the last found segment, -1 none
    activeSubRef,       \* cached segment object, or Null
    activeSubtitle,     \* React state shown by the overlay
    lookedUp,           \* TRUE once updateUI has run on the current list
    \* --- App: source, generation, settings
    videoUrl,           \* videoData.url: 0 is null, n the n-th object URL made
    status,             \* ProcessingStatus
    generations,        \* generateSubtitles calls in flight: file -> phase
    viewMode,
    subStyle,
    exportFormat,
    \* how often the settings have been changed
    settingChanges,
    \* --- App: export
    isExporting,
    exportProgress,     \* percent
    exportTimeLeft,     \* NoTimeLeft (null), or <<n>> for n seconds
    exportResult,       \* Null, or [success |-> BOOLEAN]
    cachedExportRef,    \* Null, or [key, blob, fileName]
    mediaRecorderRef,   \* 0 is null, j the recorder of job j
    offlineVideoRef,    \* 0 is null, j the offscreen video of job j
    exportAudioCtxRef,  \* 0 is null, j the audio context of job j
    jobs,               \* the calls of handleExportBurned that got past the guards
    srtContent,         \* the text downloadSRT has handed to the Blob, as the
                        \* sequence of its lines; <<>> before any download
    canvasWidth,        \* exportCanvasRef.current.width
    canvasHeight,       \* exportCanvasRef.current.height
    lastDownload,       \* the blob the step just taken handed to a.click():
                        \* 0 none, j the blob of job j
    requestOutcome,     \* the path on which the step just taken returned from
                        \* handleExportBurned, "none" for any other step
    \* --- runtime
    supportedMimes,     \* the types MediaRecorder.isTypeSupported accepts
    hasVideoFrameCallback,  \* 'requestVideoFrameCallback' in offlineVideo
    \* --- the source video
    videoWidth,         \* offlineVideo.videoWidth
    videoHeight         \* offlineVideo.videoHeight

normVars == <<rawSubtitles, processed, normPc>>
locVars == <<subtitles, videoTime, videoPaused, activeSubIndexRef, activeSubRef, activeSubtitle,
             lookedUp>>
appVars == <<videoUrl, status, generations, viewMode, subStyle, exportFormat, settingChanges>>
exportVars == <<isExporting, exportProgress, exportTimeLeft, exportResult, cachedExportRef,
                mediaRecorderRef, offlineVideoRef, exportAudioCtxRef, jobs>>
expVars == <<exportVars, lastDownload, requestOutcome>>
envVars == <<supportedMimes, hasVideoFrameCallback, videoWidth, videoHeight>>
canvasVars == <<canvasWidth, canvasHeight>>
vars == <<normVars, locVars, appVars, expVars, envVars, canvasVars, srtContent>>

Null == [kind |-> "null"]

Max(a, b) == IF a >= b THEN a ELSE b
Min(a, b) == IF a <= b THEN a ELSE b

\* ---------------------------------------------------------------- segments
\* types.ts SubtitleSegment; the two texts of the i-th raw segment name i
SubtitleSegment(s, e, i) ==
    [startTime |-> s, endTime |-> e, english |-> <<"en", i>>, chinese |-> <<"cn", i>>]

\* ------------------------------------------------------------ normalization
\* [...subtitles].sort((a, b) => a.startTime - b.startTime): a stable sort.
\* InsertSorted puts seg behind every element that does not start later.
\* an insertion that puts seg before the elements of equal start (the sort
\* is no longer stable)
RECURSIVE InsertSortedUnstable(_, _)
InsertSortedUnstable(sorted, seg) ==
    IF sorted = <<>> THEN <<seg>>
    ELSE IF sorted[Len(sorted)].startTime < seg.startTime
         THEN Append(sorted, seg)
         ELSE Append(InsertSortedUnstable(SubSeq(sorted, 1, Len(sorted) - 1), seg),
                     sorted[Len(sorted)])

RECURSIVE InsertSorted(_, _)
InsertSorted(sorted, seg) ==
    IF sorted = <<>> THEN <<seg>>
    ELSE IF sorted[Len(sorted)].startTime <= seg.startTime
         THEN Append(sorted, seg)
         ELSE Append(InsertSorted(SubSeq(sorted, 1, Len(sorted) - 1), seg), sorted[Len(sorted)])

\* a sort that leaves the list in the order in which it came
SortNothing(list) == list

RECURSIVE SortByStartTime(_)
SortByStartTime(list) ==
    IF list = <<>> THEN <<>>
    ELSE InsertSorted(SortByStartTime(SubSeq(list, 1, Len(list) - 1)), list[Len(list)])

\* a fix that moves the start of the segment back instead of its end
FixDurationMoveStart(segment) ==
    IF segment.endTime <= segment.startTime
    THEN [segment EXCEPT !.startTime = segment.endTime - MinDuration]
    ELSE segment

\* first loop: "Safety: Ensure endTime > startTime"
FixDuration(segment) ==
    IF segment.endTime <= segment.startTime
    THEN [segment EXCEPT !.endTime = segment.startTime + MinDuration]
    ELSE segment

ValidateLoop(sorted) == [i \in 1..Len(sorted) |-> FixDuration(sorted[i])]

\* TrimLoop with the large-overlap branch lost: only an overlap below 1.0 s
\* (2 ticks) is trimmed
RECURSIVE TrimLoopTinyOnly(_, _)
TrimLoopTinyOnly(list, i) ==
    IF i > Len(list) THEN list
    ELSE IF /\ i < Len(list)
            /\ list[i].endTime > list[i + 1].startTime
            /\ list[i].endTime - list[i + 1].startTime < 2
         THEN TrimLoopTinyOnly([list EXCEPT ![i].endTime = list[i + 1].startTime], i + 1)
         ELSE TrimLoopTinyOnly(list, i + 1)

\* second loop, from (1-based) position i on: a current segment that runs
\* into the next one is trimmed to the start of the next (both branches of
\* the inner if assign the same value).
RECURSIVE TrimLoop(_, _)
TrimLoop(list, i) ==
    IF i > Len(list) THEN list
    ELSE IF i < Len(list) /\ list[i].endTime > list[i + 1].startTime
         THEN TrimLoop([list EXCEPT ![i].endTime = list[i + 1].startTime], i + 1)
         ELSE TrimLoop(list, i + 1)

PostProcessSubtitles(list) ==
    IF Len(list) = 0 THEN <<>>
    ELSE TrimLoop(ValidateLoop(SortByStartTime(list)), 1)

\* ------------------------------------------------------------ live locator
Contains(seg, time) == time >= seg.startTime /\ time <= seg.endTime

\* a reference to the segment object at 0-based index i of list
SegRef(list, i) == [kind |-> "seg", idx |-> i, seg |-> list[i + 1]]

\* ForwardScan that stops at the first segment that has not started yet
\* or has ended already, instead of walking on over the ended ones
RECURSIVE ForwardScanNoWalk(_, _, _)
ForwardScanNoWalk(list, time, i) ==
    IF i >= Len(list) THEN -1
    ELSE IF Contains(list[i + 1], time) THEN i
    ELSE -1

\* for (let i = startIndex; i < subtitles.length; i++): the index found, or -1
RECURSIVE ForwardScan(_, _, _)
ForwardScan(list, time, i) ==
    IF i >= Len(list) THEN -1
    ELSE IF Contains(list[i + 1], time) THEN i
    ELSE IF list[i + 1].startTime > time THEN -1
    ELSE ForwardScan(list, time, i + 1)

\* a lookup without the scan from the beginning
BeginScanSkipped(list, time, i, scanEnd) == -1

\* for (let i = 0; i < scanEnd; i++): the index found, or -1
RECURSIVE BeginScan(_, _, _, _)
BeginScan(list, time, i, scanEnd) ==
    IF i >= scanEnd THEN -1
    ELSE IF Contains(list[i + 1], time) THEN i
    ELSE BeginScan(list, time, i + 1, scanEnd)

\* the lookup part of updateUI: the cursor after the length check, the
\* segment found (or Null) and its index
Lookup(list, time, indexRef, subRef) ==
    IF Len(list) = 0
    THEN [cursor |-> indexRef, foundSub |-> Null, foundIndex |-> -1]
    ELSE LET cursor == IF indexRef >= Len(list) THEN -1 ELSE indexRef
         IN  IF subRef # Null /\ Contains(subRef.seg, time)
             THEN [cursor |-> cursor, foundSub |-> subRef, foundIndex |-> cursor]
             ELSE LET startIndex == Max(0, cursor)
                      fwd == ForwardScan(list, time, startIndex)
                      back == IF fwd = -1 /\ startIndex > 0
                              THEN BeginScan(list, time, 0, Min(startIndex, Len(list)))
                              ELSE -1
                      found == IF fwd # -1 THEN fwd ELSE back
                  IN  [cursor |-> cursor,
                       foundSub |-> IF found = -1 THEN Null ELSE SegRef(list, found),
                       foundIndex |-> found]

\* the locator state after updateUI has run at time
UpdateLocator(time) ==
    LET r == Lookup(subtitles, time, activeSubIndexRef, activeSubRef)
    IN  IF r.foundSub # activeSubRef
        THEN /\ activeSubRef' = r.foundSub
             /\ activeSubIndexRef' = r.foundIndex
             /\ activeSubtitle' = r.foundSub
        ELSE /\ activeSubIndexRef' = r.cursor
             /\ UNCHANGED <<activeSubRef, activeSubtitle>>

\* the reference the claims compare with: the first segment of the list
\* that contains time, found by a scan from index 0
RECURSIVE LinearScan(_, _, _)
LinearScan(list, time, i) ==
    IF i >= Len(list) THEN Null
    ELSE IF Contains(list[i + 1], time) THEN SegRef(list, i)
    ELSE LinearScan(list, time, i + 1)

\* ------------------------------------------------------------------ export
Jobs == 1..MaxJobs

ViewModes == {"dual", "off"}
ExportFormats == {"mp4", "webm"}
\* the subtitle style: the initial one, and the position slider moved
InitialStyle ==
    [enSize |-> 15, cnSize |-> 15, enColor |-> "#ffffff", cnColor |-> "#facc15",
     verticalPosition |-> 10]
VerticalPositions == {10, 20}

\* exportTimeLeft null
NoTimeLeft == <<>>

Success == [success |-> TRUE]
Failure == [success |-> FALSE]

\* preferredMimes of handleExportBurned
Mp4Mimes ==
    <<"video/mp4;codecs=avc1.640034,mp4a.40.2", "video/mp4;codecs=avc1.42E01E,mp4a.40.2",
      "video/mp4", "video/webm;codecs=vp9,opus", "video/webm">>
WebmMimes ==
    <<"video/webm;codecs=vp9,opus", "video/webm;codecs=vp8,opus", "video/webm",
      "video/mp4;codecs=avc1.640034,mp4a.40.2", "video/mp4">>
PreferredMimes(format) ==
    IF format = "mp4" \/ format = "mov" THEN Mp4Mimes ELSE WebmMimes

\* a search that keeps the last supported entry of the list
RECURSIVE FindSupportedLast(_, _, _)
FindSupportedLast(list, supported, i) ==
    IF i > Len(list) THEN ""
    ELSE LET later == FindSupportedLast(list, supported, i + 1)
         IN  IF later # "" THEN later
             ELSE IF list[i] \in supported THEN list[i] ELSE ""

\* preferredMimes.find(type => MediaRecorder.isTypeSupported(type)) || ''
RECURSIVE FindSupported(_, _, _)
FindSupported(list, supported, i) ==
    IF i > Len(list) THEN ""
    ELSE IF list[i] \in supported THEN list[i]
    ELSE FindSupported(list, supported, i + 1)

\* runtimes: one that records every type and has requestVideoFrameCallback,
\* one that records only the webm family and has no requestVideoFrameCallback,
\* one that records nothing
WebmFamily == {"video/webm;codecs=vp9,opus", "video/webm;codecs=vp8,opus", "video/webm"}
AllMimes == {Mp4Mimes[i] : i \in 1..Len(Mp4Mimes)} \cup {WebmMimes[i] : i \in 1..Len(WebmMimes)}
Runtimes ==
    {[mimes |-> AllMimes, frameCallback |-> TRUE],
     [mimes |-> WebmFamily, frameCallback |-> FALSE],
     [mimes |-> {}, frameCallback |-> TRUE]}

\* JSON.stringify({videoUrl, subtitles, viewMode, subStyle, exportFormat}):
\* the serialization lists the five values in this order
ExportKey(url, subs, mode, style, format) ==
    <<"videoUrl", url, "subtitles", subs, "viewMode", mode, "subStyle", style,
      "exportFormat", format>>

CurrentExportKey == ExportKey(videoUrl, subtitles, viewMode, subStyle, exportFormat)

\* a call of handleExportBurned that has not run yet
NoJob ==
    [pc |-> "none", key |-> <<>>, mimeType |-> "", fileName |-> <<>>,
     video |-> "none", time |-> 0, audio |-> "none",
     recorder |-> "none", onstop |-> FALSE, onerror |-> FALSE, stopEvent |-> FALSE,
     closure |-> <<>>, rendered |-> {}]

\* what the handlers of the export read and write, as one record
ExportState ==
    [isExporting |-> isExporting, exportProgress |-> exportProgress,
     exportTimeLeft |-> exportTimeLeft, exportResult |-> exportResult,
     cachedExportRef |-> cachedExportRef, mediaRecorderRef |-> mediaRecorderRef,
     offlineVideoRef |-> offlineVideoRef, exportAudioCtxRef |-> exportAudioCtxRef,
     jobs |-> jobs, lastDownload |-> 0]

\* what is left of a call of handleExportBurned: once the call has ended and
\* its recorder can no longer run onstop, nothing reads the values its closures
\* captured; the position of a video is read only while it is loaded
Collect(job) ==
    LET stopPending == job.onstop /\ (job.stopEvent \/ job.recorder = "recording")
        live == job.pc # "ended" \/ stopPending
    IN  [job EXCEPT !.key = IF live THEN @ ELSE NoJob.key,
                    !.mimeType = IF live THEN @ ELSE NoJob.mimeType,
                    !.fileName = IF live THEN @ ELSE NoJob.fileName,
                    !.closure = IF live THEN @ ELSE NoJob.closure,
                    !.rendered = IF live THEN @ ELSE NoJob.rendered,
                    !.time = IF job.video = "attached" /\ job.pc # "ended" THEN @ ELSE 0]

Commit(st) ==
    /\ isExporting' = st.isExporting
    /\ exportProgress' = st.exportProgress
    /\ exportTimeLeft' = st.exportTimeLeft
    /\ exportResult' = st.exportResult
    /\ cachedExportRef' = st.cachedExportRef
    /\ mediaRecorderRef' = st.mediaRecorderRef
    /\ offlineVideoRef' = st.offlineVideoRef
    /\ exportAudioCtxRef' = st.exportAudioCtxRef
    /\ jobs' = [j \in Jobs |-> Collect(st.jobs[j])]
    /\ lastDownload' = st.lastDownload

\* pause(), the source removed, load(), removeChild: the video of job v is
\* unloaded and out of the document. load() rejects a pending play() promise
\* of that video at once; its catch handler runs when the caller is through
\* (SettlePlay).
UnloadVideo(st, v) ==
    IF v = 0 THEN st
    ELSE [st EXCEPT !.jobs[v].video = "detached",
                    !.jobs[v].pc = IF @ = "waitPlay" THEN "playRejected" ELSE @]

CloseAudio(st, c) ==
    IF c = 0 THEN st ELSE [st EXCEPT !.jobs[c].audio = "closed"]

\* const cleanup = () => {...}: it reads the refs, not the job's own objects,
\* and leaves the refs set
Cleanup(st) ==
    LET s1 == UnloadVideo(st, st.offlineVideoRef)
        s2 == CloseAudio(s1, s1.exportAudioCtxRef)
    IN  [s2 EXCEPT !.isExporting = FALSE, !.exportTimeLeft = NoTimeLeft]

\* offlineVideo.play().catch(e => { cleanup(); }) of every job whose pending
\* play() has just been rejected
SettlePlay(st) ==
    IF \E j \in Jobs : st.jobs[j].pc = "playRejected"
    THEN Cleanup([st EXCEPT !.jobs =
             [j \in Jobs |-> IF st.jobs[j].pc = "playRejected"
                             THEN [st.jobs[j] EXCEPT !.pc = "ended"]
                             ELSE st.jobs[j]]])
    ELSE st

\* recorder.onstop of job j
OnStop(st, j) ==
    Cleanup([st EXCEPT
        !.cachedExportRef = [key |-> st.jobs[j].key, blob |-> j,
                             fileName |-> st.jobs[j].fileName],
        !.exportResult = Success,
        !.lastDownload = j])

\* recorder.onerror of job j
OnError(st, j) ==
    Cleanup([st EXCEPT !.exportResult = Failure])

\* the recorder of job j fires its stop event
FireStop(st, j) ==
    LET s1 == [st EXCEPT !.jobs[j].stopEvent = FALSE]
    IN  IF st.jobs[j].onstop THEN OnStop(s1, j) ELSE s1

\* the recorder of job j fails while recording: it becomes inactive and
\* fires error, then (dataavailable and) stop, in one task
FireError(st, j) ==
    LET s1 == [st EXCEPT !.jobs[j].recorder = "inactive"]
        s2 == IF st.jobs[j].onerror THEN OnError(s1, j) ELSE s1
    IN  FireStop(s2, j)

\* recorder.stop(): inactive at once, the stop event follows in a task
StopRecorder(st, j) ==
    [st EXCEPT !.jobs[j].recorder = "inactive", !.jobs[j].stopEvent = TRUE]

\* const cancelExport = () => {...}
CancelExportBody(st) ==
    LET r == st.mediaRecorderRef
        s1 == IF r = 0 THEN st
              ELSE LET n == [st EXCEPT !.jobs[r].onstop = FALSE, !.jobs[r].onerror = FALSE]
                   IN  IF n.jobs[r].recorder # "inactive" THEN StopRecorder(n, r) ELSE n
        s2 == [UnloadVideo(s1, s1.offlineVideoRef) EXCEPT !.offlineVideoRef = 0]
        s3 == [CloseAudio(s2, s2.exportAudioCtxRef) EXCEPT !.exportAudioCtxRef = 0]
    IN  [s3 EXCEPT !.isExporting = FALSE, !.exportProgress = 0, !.exportTimeLeft = NoTimeLeft]

\* the cleanup of the effect on videoData.url: the offscreen video is taken
\* out and unloaded and the ref cleared, the audio context closed (ref kept)
UrlEffectCleanup(st) ==
    LET s1 == [UnloadVideo(st, st.offlineVideoRef) EXCEPT !.offlineVideoRef = 0]
    IN  CloseAudio(s1, s1.exportAudioCtxRef)

\* Math.round(n / d) for n >= 0 and d > 0, by the exact quotient: a half is
\* rounded up
RoundDiv(n, d) == (2 * n + d) \div (2 * d)

\* a size that is left odd
KeepOdd(n) == n

\* if (target % 2 !== 0) target--;
EvenDown(n) == IF n % 2 # 0 THEN n - 1 ELSE n

\* the scaling of a source of w x h, before the sizes are made even. ratio > 1
\* is w > h; with h = 0 the ratio is Infinity and MAX_WIDTH / ratio is 0
ScaledSize(w, h) ==
    IF w > MAX_WIDTH \/ h > MAX_HEIGHT
    THEN IF w > h
         THEN [width |-> MAX_WIDTH, height |-> RoundDiv(MAX_WIDTH * h, w)]
         ELSE [width |-> RoundDiv(MAX_HEIGHT * w, h), height |-> MAX_HEIGHT]
    ELSE [width |-> w, height |-> h]

\* targetWidth and targetHeight as the canvas is given them
TargetSize(w, h) ==
    [width |-> EvenDown(ScaledSize(w, h).width),
     height |-> EvenDown(ScaledSize(w, h).height)]

\* ------------------------------------------------------------------ actions
\* a step that is no export request and downloads nothing
NoEffect == requestOutcome' = "none" /\ lastDownload' = 0

\* the App after construction, in a runtime
AppIdle ==
    /\ videoUrl = 0
    /\ status = "idle"
    /\ generations = [f \in 1..MaxFiles |-> "none"]
    /\ viewMode = "dual"
    /\ subStyle = InitialStyle
    /\ exportFormat = "mp4"
    /\ settingChanges = 0
    /\ isExporting = FALSE
    /\ exportProgress = 0
    /\ exportTimeLeft = NoTimeLeft
    /\ exportResult = Null
    /\ cachedExportRef = Null
    /\ mediaRecorderRef = 0
    /\ offlineVideoRef = 0
    /\ exportAudioCtxRef = 0
    /\ jobs = [j \in Jobs |-> NoJob]
    /\ lastDownload = 0
    /\ requestOutcome = "none"
    /\ canvasWidth = DefaultCanvasWidth
    /\ canvasHeight = DefaultCanvasHeight
    /\ srtContent = <<>>

\* the source videos of the runs in which the size is not at stake have the
\* size of the unsized canvas
PlainSource ==
    /\ videoWidth = DefaultCanvasWidth
    /\ videoHeight = DefaultCanvasHeight

PlayerIdle ==
    /\ subtitles = <<>>
    /\ videoTime = 0
    /\ videoPaused = TRUE
    /\ activeSubIndexRef = -1
    /\ activeSubRef = Null
    /\ activeSubtitle = Null
    /\ lookedUp = FALSE

\* the collaborator's answer is parsed segment by segment: any start and end
\* time, in any order (unordered, overlapping, zero or negative durations,
\* equal start times)
ReceiveSegment ==
    /\ normPc = "raw"
    /\ Len(rawSubtitles) < MaxLen
    /\ \E s \in 0..MaxTime, e \in 0..MaxTime :
          rawSubtitles' = Append(rawSubtitles, SubtitleSegment(s, e, Len(rawSubtitles) + 1))
    /\ UNCHANGED <<processed, normPc, locVars, appVars, expVars, envVars, canvasVars, srtContent>>

\* --- normalization of one raw list
InitNorm ==
    /\ rawSubtitles = <<>>
    /\ processed = <<>>
    /\ normPc = "raw"
    /\ PlayerIdle
    /\ AppIdle
    /\ supportedMimes = AllMimes
    /\ hasVideoFrameCallback = TRUE
    /\ PlainSource

Normalize ==
    /\ normPc = "raw"
    /\ processed' = PostProcessSubtitles(rawSubtitles)
    /\ normPc' = "done"
    /\ UNCHANGED <<rawSubtitles, locVars, appVars, expVars, envVars, canvasVars, srtContent>>

NextNorm == ReceiveSegment \/ Normalize

SpecNorm == InitNorm /\ [][NextNorm]_vars

\* C1: after normalization of any raw list the output is in ascending
\* startTime order and no two segments overlap: every segment ends at or
\* before the start of every later one (adjacent pairs included).
C1_SortedNonOverlapping ==
    normPc = "done" =>
        \A i \in 1..Len(processed), j \in 1..Len(processed) :
            i < j => /\ processed[i].startTime <= processed[j].startTime
                     /\ processed[i].endTime <= processed[j].startTime

\* a normalized list whose raw list was out of order and overlapping, and
\* where the trim has acted
C1_Witness ==
    /\ normPc = "done"
    /\ Len(rawSubtitles) = 3
    /\ rawSubtitles[1].startTime > rawSubtitles[3].startTime
    /\ rawSubtitles[3].endTime > rawSubtitles[1].startTime
    /\ rawSubtitles[3].endTime > rawSubtitles[3].startTime
    /\ processed[1].endTime < rawSubtitles[3].endTime
    /\ processed[1].english = rawSubtitles[3].english

\* C2: after normalization of any raw list every output segment has
\* endTime > startTime.
C2_PositiveDuration ==
    normPc = "done" =>
        \A i \in 1..Len(processed) : processed[i].endTime > processed[i].startTime

\* --- playback over a fixed normalized list
LocTimes == 0..(MaxTime + MinDuration)

InitLocate == InitNorm

\* generateSubtitles returns postProcessSubtitles(parsed) and executeGeneration
\* stores it and starts the player: setSubtitles(result); videoRef.current.play()
SetSubtitles ==
    /\ normPc = "raw"
    /\ subtitles' = PostProcessSubtitles(rawSubtitles)
    /\ rawSubtitles' = <<>>
    /\ normPc' = "loaded"
    /\ videoPaused' = FALSE
    /\ lookedUp' = FALSE
    /\ UNCHANGED <<processed, videoTime, activeSubIndexRef, activeSubRef, activeSubtitle>>
    /\ UNCHANGED <<appVars, expVars, envVars, canvasVars, srtContent>>

\* one animation frame of a playing video: the clock has moved on (or not)
\* and updateUI looks the active segment up
PlaybackFrame ==
    /\ ~videoPaused
    /\ \E t \in LocTimes :
          /\ t >= videoTime
          /\ videoTime' = t
          /\ UpdateLocator(t)
    /\ lookedUp' = TRUE
    /\ UNCHANGED <<subtitles, videoPaused, normVars, appVars, exportVars, envVars, canvasVars, srtContent>>
    /\ NoEffect

NextLocate == ReceiveSegment \/ SetSubtitles \/ PlaybackFrame

SpecLocate == InitLocate /\ [][NextLocate]_vars

\* C3: over a fixed normalized list and non-decreasing query times, from a
\* reset locator, every lookup of updateUI yields exactly the segment a scan
\* from index 0 yields at that time (the same object at the same index), or
\* none when no segment contains the time.
C3_LocatorMatchesLinearScan ==
    lookedUp =>
        /\ activeSubRef = LinearScan(subtitles, videoTime, 0)
        /\ activeSubtitle = activeSubRef
        /\ activeSubIndexRef = (IF activeSubRef = Null THEN -1 ELSE activeSubRef.idx)

\* the cursor has walked to the third segment of a list of three
C3_Witness ==
    /\ lookedUp
    /\ Len(subtitles) = 3
    /\ activeSubRef # Null
    /\ activeSubIndexRef = 2
    /\ videoTime > subtitles[2].endTime

\* --- the App: files, generation, settings and the export
\* the list a generation returns for the f-th file in the runs of the export:
\* f segments of two ticks, received last first
RECURSIVE RawResult(_)
RawResult(f) ==
    IF f = 0 THEN <<>>
    ELSE <<SubtitleSegment(2 * (f - 1), 2 * f, f)>> \o RawResult(f - 1)

GenResult(f) == PostProcessSubtitles(RawResult(f))

\* wall-clock time since the start of the job, in ticks of 0.1 s, as a frame
\* may find it
ElapsedChoices == {25}

NormIdle == rawSubtitles = <<>> /\ processed = <<>> /\ normPc = "idle"

InitExport ==
    /\ NormIdle
    /\ PlayerIdle
    /\ AppIdle
    /\ \E runtime \in Runtimes :
          /\ supportedMimes = runtime.mimes
          /\ hasVideoFrameCallback = runtime.frameCallback
    /\ PlainSource

\* processSelectedFile, with the effects on the new URL: the cleanup of the
\* App's effect on videoData.url and the reset of the Player
ProcessSelectedFile ==
    /\ videoUrl < MaxFiles
    /\ videoUrl' = videoUrl + 1
    /\ status' = "idle"
    /\ subtitles' = <<>>
    /\ Commit(SettlePlay(UrlEffectCleanup(
           [ExportState EXCEPT !.exportProgress = 0, !.exportTimeLeft = NoTimeLeft,
                               !.exportResult = Null, !.cachedExportRef = Null])))
    /\ activeSubRef' = Null
    /\ activeSubIndexRef' = -1
    /\ activeSubtitle' = Null
    /\ videoTime' = 0
    /\ videoPaused' = TRUE
    /\ lookedUp' = FALSE
    /\ requestOutcome' = "none"
    /\ UNCHANGED <<generations, viewMode, subStyle, exportFormat, settingChanges, normVars, envVars, canvasVars, srtContent>>

\* handleProcess / executeGeneration up to the first await of
\* generateSubtitles: a small file goes straight to 'analyzing'
ExecuteGeneration ==
    /\ videoUrl # 0
    /\ status \in {"idle", "error", "completed"}
    /\ \E phase \in {"uploading", "analyzing"} :
          /\ status' = phase
          /\ generations' = [generations EXCEPT ![videoUrl] = phase]
    /\ UNCHANGED <<videoUrl, viewMode, subStyle, exportFormat, settingChanges, normVars, locVars,
                   exportVars, envVars, canvasVars, srtContent>>
    /\ NoEffect

\* onProgress('analyzing') of the call made for file f
GenerationAnalyzing(f) ==
    /\ generations[f] = "uploading"
    /\ generations' = [generations EXCEPT ![f] = "analyzing"]
    /\ status' = "analyzing"
    /\ UNCHANGED <<videoUrl, viewMode, subStyle, exportFormat, settingChanges, normVars, locVars,
                   exportVars, envVars, canvasVars, srtContent>>
    /\ NoEffect

\* the call made for file f resolves: setSubtitles(result);
\* setStatus('completed'); videoRef.current.play()
GenerationCompleted(f) ==
    /\ generations[f] = "analyzing"
    /\ subtitles' = GenResult(f)
    /\ status' = "completed"
    /\ videoPaused' = FALSE
    /\ generations' = [generations EXCEPT ![f] = "none"]
    /\ UNCHANGED <<videoUrl, viewMode, subStyle, exportFormat, settingChanges, normVars, videoTime,
                   activeSubIndexRef, activeSubRef, activeSubtitle, lookedUp,
                   exportVars, envVars, canvasVars, srtContent>>
    /\ NoEffect

\* a catch branch that also empties the store
GenerationFailedClearsStore(f) ==
    /\ generations[f] # "none"
    /\ status' = "error"
    /\ subtitles' = <<>>
    /\ generations' = [generations EXCEPT ![f] = "none"]
    /\ UNCHANGED <<videoUrl, viewMode, subStyle, exportFormat, settingChanges, normVars,
                   videoTime, videoPaused, activeSubIndexRef, activeSubRef, activeSubtitle,
                   lookedUp, exportVars, envVars, canvasVars, srtContent>>
    /\ NoEffect

\* the call made for file f rejects: setStatus('error')
GenerationFailed(f) ==
    /\ generations[f] # "none"
    /\ status' = "error"
    /\ generations' = [generations EXCEPT ![f] = "none"]
    /\ UNCHANGED <<videoUrl, viewMode, subStyle, exportFormat, settingChanges, normVars, locVars,
                   exportVars, envVars, canvasVars, srtContent>>
    /\ NoEffect

SetViewMode(mode) ==
    /\ mode # viewMode
    /\ settingChanges < MaxChanges
    /\ settingChanges' = settingChanges + 1
    /\ viewMode' = mode
    /\ UNCHANGED <<videoUrl, status, generations, subStyle, exportFormat, normVars,
                   locVars, exportVars, envVars, canvasVars, srtContent>>
    /\ NoEffect

\* the position slider of the style panel
SetSubStyle(position) ==
    /\ position # subStyle.verticalPosition
    /\ settingChanges < MaxChanges
    /\ settingChanges' = settingChanges + 1
    /\ subStyle' = [subStyle EXCEPT !.verticalPosition = position]
    /\ UNCHANGED <<videoUrl, status, generations, viewMode, exportFormat, normVars,
                   locVars, exportVars, envVars, canvasVars, srtContent>>
    /\ NoEffect

\* the format menu: rendered with the export button, not opened while exporting
SetExportFormat(format) ==
    /\ status = "completed"
    /\ ~isExporting
    /\ format # exportFormat
    /\ settingChanges < MaxChanges
    /\ settingChanges' = settingChanges + 1
    /\ exportFormat' = format
    /\ UNCHANGED <<videoUrl, status, generations, viewMode, subStyle, normVars,
                   locVars, exportVars, envVars, canvasVars, srtContent>>
    /\ NoEffect

\* the notification is dismissed, by its button or after 3 s
DismissExportResult ==
    /\ exportResult # Null
    /\ exportResult' = Null
    /\ UNCHANGED <<isExporting, exportProgress, exportTimeLeft, cachedExportRef,
                   mediaRecorderRef, offlineVideoRef, exportAudioCtxRef, jobs,
                   normVars, locVars, appVars, envVars, canvasVars, srtContent>>
    /\ NoEffect

FreeJobs == {j \in Jobs : jobs[j].pc = "none"}

\* a guard that lets a request through while a job runs
RequestIgnoredWithoutUrl == videoUrl = 0

\* if (!videoData.url || isExporting) return;
RequestIgnored == videoUrl = 0 \/ isExporting

\* a hit that resets the progress before it serves the cached artifact
ServeCachedFromStart(st) ==
    [st EXCEPT !.exportProgress = 0, !.lastDownload = st.cachedExportRef.blob]

\* the cached blob is handed to a.click() under the cached file name
ServeCached(st) ==
    [st EXCEPT !.lastDownload = st.cachedExportRef.blob]

\* a capability check that comes after setIsExporting(true)
AlertUnsupportedLate(st) ==
    [st EXCEPT !.isExporting = TRUE, !.exportProgress = 0, !.exportTimeLeft = NoTimeLeft]

\* if (!mimeType) { alert(...); return; }
AlertUnsupported(st) == st

\* handleExportBurned up to its first await. The button is rendered once a
\* generation has completed.
HandleExportBurned ==
    /\ status = "completed"
    /\ IF RequestIgnored
       THEN /\ requestOutcome' = "ignored"
            /\ lastDownload' = 0
            /\ UNCHANGED exportVars
       ELSE LET mimeType == FindSupported(PreferredMimes(exportFormat), supportedMimes, 1)
                st == [ExportState EXCEPT !.exportResult = Null]
            IN  IF cachedExportRef # Null /\ cachedExportRef.key = CurrentExportKey
                THEN /\ requestOutcome' = "hit"
                     /\ Commit(ServeCached(st))
                ELSE IF mimeType = ""
                THEN /\ requestOutcome' = "unsupported"
                     /\ Commit(AlertUnsupported(st))
                ELSE /\ FreeJobs # {}
                     /\ LET j == CHOOSE k \in FreeJobs : \A m \in FreeJobs : k <= m
                        IN  Commit([st EXCEPT
                                !.isExporting = TRUE,
                                !.exportProgress = 0,
                                !.exportTimeLeft = NoTimeLeft,
                                !.offlineVideoRef = j,
                                !.jobs[j] = [NoJob EXCEPT
                                    !.pc = "waitMeta",
                                    !.key = CurrentExportKey,
                                    !.mimeType = mimeType,
                                    !.fileName = <<videoUrl, exportFormat>>,
                                    !.closure = <<subtitles, viewMode, subStyle>>,
                                    !.video = "attached"]])
                     /\ requestOutcome' = "started"
    /\ UNCHANGED <<normVars, locVars, appVars, envVars, canvasVars, srtContent>>

\* job j resumes after the metadata wait, but canvas.getContext returns null
MetadataLoadedNoContext(j) ==
    /\ jobs[j].pc = "waitMeta"
    /\ jobs[j].video = "attached"
    /\ jobs' = [jobs EXCEPT ![j] = Collect([@ EXCEPT !.pc = "ended"])]
    /\ canvasWidth' = TargetSize(videoWidth, videoHeight).width
    /\ canvasHeight' = TargetSize(videoWidth, videoHeight).height
    /\ UNCHANGED <<isExporting, exportProgress, exportTimeLeft, exportResult,
                   cachedExportRef, mediaRecorderRef, offlineVideoRef, exportAudioCtxRef,
                   normVars, locVars, appVars, envVars, srtContent>>
    /\ NoEffect

\* job j resumes after the metadata wait: canvas size, context, audio context
MetadataLoaded(j) ==
    /\ jobs[j].pc = "waitMeta"
    /\ jobs[j].video = "attached"
    /\ jobs' = [jobs EXCEPT ![j].pc = "waitResume", ![j].audio = "running"]
    /\ exportAudioCtxRef' = j
    /\ canvasWidth' = TargetSize(videoWidth, videoHeight).width
    /\ canvasHeight' = TargetSize(videoWidth, videoHeight).height
    /\ UNCHANGED <<isExporting, exportProgress, exportTimeLeft, exportResult,
                   cachedExportRef, mediaRecorderRef, offlineVideoRef,
                   normVars, locVars, appVars, envVars, srtContent>>
    /\ NoEffect

\* job j resumes after audioCtx.resume(): the capture graph, the recorder
\* and its handlers, then the wait for 'seeked'
ResumeResolved(j) ==
    /\ jobs[j].pc = "waitResume"
    /\ jobs' = [jobs EXCEPT ![j].pc = "waitSeeked", ![j].recorder = "inactive",
                            ![j].onstop = TRUE, ![j].onerror = TRUE]
    /\ mediaRecorderRef' = j
    /\ UNCHANGED <<isExporting, exportProgress, exportTimeLeft, exportResult,
                   cachedExportRef, offlineVideoRef, exportAudioCtxRef,
                   normVars, locVars, appVars, envVars, canvasVars, srtContent>>
    /\ NoEffect

\* the audio context of job j was closed while resume() was pending: resume()
\* rejects or createMediaElementSource throws, and the call ends
AudioSetupFails(j) ==
    /\ jobs[j].pc = "waitResume"
    /\ jobs[j].audio = "closed"
    /\ jobs' = [jobs EXCEPT ![j] = Collect([@ EXCEPT !.pc = "ended"])]
    /\ UNCHANGED <<isExporting, exportProgress, exportTimeLeft, exportResult,
                   cachedExportRef, mediaRecorderRef, offlineVideoRef, exportAudioCtxRef,
                   normVars, locVars, appVars, envVars, canvasVars, srtContent>>
    /\ NoEffect

\* a job that starts the visible player from 0 instead of its own video
SeekedOnVisiblePlayer(j) ==
    /\ jobs[j].pc = "waitSeeked"
    /\ jobs[j].video = "attached"
    /\ jobs' = [jobs EXCEPT ![j].pc = "waitPlay", ![j].recorder = "recording"]
    /\ videoTime' = 0
    /\ videoPaused' = FALSE
    /\ UNCHANGED <<isExporting, exportProgress, exportTimeLeft, exportResult,
                   cachedExportRef, mediaRecorderRef, offlineVideoRef, exportAudioCtxRef,
                   subtitles, activeSubIndexRef, activeSubRef, activeSubtitle, lookedUp,
                   normVars, appVars, envVars, canvasVars, srtContent>>
    /\ NoEffect

\* job j resumes after 'seeked': recorder.start(); offlineVideo.play()
Seeked(j) ==
    /\ jobs[j].pc = "waitSeeked"
    /\ jobs[j].video = "attached"
    /\ jobs' = [jobs EXCEPT ![j].pc = "waitPlay", ![j].recorder = "recording"]
    /\ UNCHANGED <<isExporting, exportProgress, exportTimeLeft, exportResult,
                   cachedExportRef, mediaRecorderRef, offlineVideoRef, exportAudioCtxRef,
                   normVars, locVars, appVars, envVars, canvasVars, srtContent>>
    /\ NoEffect

CeilDiv(n, d) == (n + d - 1) \div d
Abs(n) == IF n < 0 THEN -n ELSE n

\* an update without the hysteresis: every frame reports what it computes
TimeLeftUpdateEveryFrame(prev, elapsed, t, d) ==
    <<CeilDiv(elapsed * (d - t), 10 * t)>>

\* setExportTimeLeft(prev => ...) at time t of duration d, elapsed ticks after
\* the start: remaining = elapsed / (progress / 100) - elapsed
\*                      = elapsed * (d - t) / t ticks of 0.1 s
TimeLeftUpdate(prev, elapsed, t, d) ==
    LET num == elapsed * (d - t)
        den == 10 * t
    IN  IF prev = NoTimeLeft \/ prev[1] = 0 THEN <<CeilDiv(num, den)>>
        ELSE IF Abs(prev[1] * den - num) * 2 > den THEN <<CeilDiv(num, den)>>
        ELSE prev

\* the frame callback drawing with the segments, view mode and style of the
\* latest render instead of those its call captured
DrawFrameBodyLatestRender(st, j, t, elapsed) ==
    LET job == st.jobs[j]
        ended == [st EXCEPT !.jobs[j].pc = "ended"]
        loaded == job.video = "attached"
        d == IF loaded THEN VideoDuration ELSE 1
    IN  IF st.offlineVideoRef = 0 THEN ended
        ELSE IF st.jobs[st.offlineVideoRef].video # "attached" THEN ended
        ELSE IF loaded /\ t >= VideoDuration - StopEpsilon
        THEN IF job.recorder = "recording" THEN StopRecorder(ended, j) ELSE ended
        ELSE [st EXCEPT
                !.jobs[j].pc = "drawing",
                !.jobs[j].time = t,
                !.jobs[j].rendered = @ \cup {<<subtitles, viewMode, subStyle>>},
                !.exportProgress = Min(100, (t * 100) \div d),
                !.exportTimeLeft = IF t * 100 > 2 * d
                                   THEN TimeLeftUpdate(@, elapsed, t, d)
                                   ELSE @]

\* const drawFrame = () => {...} of job j, finding its video at time t. The
\* frame is drawn with the subtitles, viewMode and subStyle of the render
\* whose handleExportBurned was called.
DrawFrameBody(st, j, t, elapsed) ==
    LET job == st.jobs[j]
        ended == [st EXCEPT !.jobs[j].pc = "ended"]
        \* an unloaded video has currentTime 0 and duration NaN
        loaded == job.video = "attached"
        d == IF loaded THEN VideoDuration ELSE 1
    IN  IF st.offlineVideoRef = 0 THEN ended
        ELSE IF st.jobs[st.offlineVideoRef].video # "attached" THEN ended
        ELSE IF loaded /\ t >= VideoDuration - StopEpsilon
        THEN IF job.recorder = "recording" THEN StopRecorder(ended, j) ELSE ended
        ELSE [st EXCEPT
                !.jobs[j].pc = "drawing",
                !.jobs[j].time = t,
                !.jobs[j].rendered = @ \cup {job.closure},
                !.exportProgress = Min(100, (t * 100) \div d),
                !.exportTimeLeft = IF t * 100 > 2 * d
                                   THEN TimeLeftUpdate(@, elapsed, t, d)
                                   ELSE @]

\* offlineVideo.play() of job j resolves: .then(() => { drawFrame(); })
PlayResolved(j) ==
    /\ jobs[j].pc = "waitPlay"
    /\ jobs[j].video = "attached"
    /\ \E elapsed \in ElapsedChoices :
          Commit(DrawFrameBody(ExportState, j, jobs[j].time, elapsed))
    /\ requestOutcome' = "none"
    /\ UNCHANGED <<normVars, locVars, appVars, envVars, canvasVars, srtContent>>

\* offlineVideo.play() of job j rejects (playback not allowed, decode
\* failure): .catch(e => { cleanup(); })
PlayRejected(j) ==
    /\ jobs[j].pc = "waitPlay"
    /\ jobs[j].video = "attached"
    /\ Commit(Cleanup([ExportState EXCEPT !.jobs[j].pc = "ended"]))
    /\ requestOutcome' = "none"
    /\ UNCHANGED <<normVars, locVars, appVars, envVars, canvasVars, srtContent>>

\* the frame callback of job j runs. requestVideoFrameCallback calls back
\* when the job's video presents a frame, requestAnimationFrame on every
\* animation frame; a playing video is found at a later time.
DrawFrame(j) ==
    /\ jobs[j].pc = "drawing"
    /\ jobs[j].video = "attached" \/ ~hasVideoFrameCallback
    /\ \E t \in 0..VideoDuration, elapsed \in ElapsedChoices :
          /\ IF jobs[j].video = "attached" THEN t > jobs[j].time ELSE t = 0
          /\ Commit(DrawFrameBody(ExportState, j, t, elapsed))
    /\ requestOutcome' = "none"
    /\ UNCHANGED <<normVars, locVars, appVars, envVars, canvasVars, srtContent>>

\* the stop event of the recorder of job j, queued by recorder.stop()
RecorderStop(j) ==
    /\ jobs[j].stopEvent
    /\ Commit(SettlePlay(FireStop(ExportState, j)))
    /\ requestOutcome' = "none"
    /\ UNCHANGED <<normVars, locVars, appVars, envVars, canvasVars, srtContent>>

\* the recorder of job j fails while it records
RecorderError(j) ==
    /\ jobs[j].recorder = "recording"
    /\ Commit(SettlePlay(FireError(ExportState, j)))
    /\ requestOutcome' = "none"
    /\ UNCHANGED <<normVars, locVars, appVars, envVars, canvasVars, srtContent>>

\* the cancel button of the export panel, rendered while isExporting
CancelExport ==
    /\ isExporting
    /\ Commit(SettlePlay(CancelExportBody(ExportState)))
    /\ requestOutcome' = "none"
    /\ UNCHANGED <<normVars, locVars, appVars, envVars, canvasVars, srtContent>>

UserStep ==
    \/ ProcessSelectedFile
    \/ ExecuteGeneration
    \/ \E mode \in ViewModes : SetViewMode(mode)
    \/ \E position \in VerticalPositions : SetSubStyle(position)
    \/ \E format \in ExportFormats : SetExportFormat(format)
    \/ DismissExportResult
    \/ HandleExportBurned
    \/ CancelExport

GenerationStep ==
    \E f \in 1..MaxFiles :
        \/ GenerationAnalyzing(f)
        \/ GenerationCompleted(f)
        \/ GenerationFailed(f)

\* the continuations and callbacks of job j that the scheduler runs
JobStep(j) ==
    \/ MetadataLoaded(j)
    \/ ResumeResolved(j)
    \/ Seeked(j)
    \/ PlayResolved(j)
    \/ DrawFrame(j)
    \/ RecorderStop(j)

\* what the runtime may do to job j instead
JobFault(j) ==
    \/ MetadataLoadedNoContext(j)
    \/ AudioSetupFails(j)
    \/ PlayRejected(j)
    \/ RecorderError(j)

NextExport ==
    \/ UserStep
    \/ GenerationStep
    \/ \E j \in Jobs : JobStep(j)
    \/ \E j \in Jobs : JobFault(j)

SpecExport == InitExport /\ [][NextExport]_vars

\* the event loop runs every continuation and callback of a job that is
\* ready to run: loadedmetadata, the resolution of resume(), seeked, the
\* resolution of play(), the frame callbacks and the stop event. What the
\* user does is left open.
\* The runtime does not fail a job on its own.
NextExportFair ==
    \/ UserStep
    \/ GenerationStep
    \/ \E j \in Jobs : JobStep(j)

SpecExportFair ==
    InitExport /\ [][NextExportFair]_vars /\ \A j \in Jobs : WF_vars(JobStep(j))

\* ------------------------------------------------------------------ claims
Started == {j \in Jobs : jobs[j].pc # "none"}

\* the job of the latest request that got past the guards, 0 if there is none
NewestJob == IF Started = {} THEN 0 ELSE CHOOSE j \in Started : \A k \in Started : k <= j

\* job j holds none of the resources it allocated
Released(j) ==
    /\ jobs[j].video # "attached"
    /\ jobs[j].audio # "running"
    /\ jobs[j].recorder # "recording"

\* the call of job j has returned and its recorder has no stop event to deliver
JobOver(j) == jobs[j].pc = "ended" /\ ~jobs[j].stopEvent

\* C4: at most one export job is active at any time (at most one offscreen
\* video is attached and at most one export audio context is open), and an
\* export request made while isExporting is rejected: it creates no video,
\* audio context or recorder and leaves the jobs, the refs, the progress, the
\* ETA, the result and the cache as they were.
C4_OneJobAtATime ==
    /\ [](/\ Cardinality({j \in Jobs : jobs[j].video = "attached"}) <= 1
          /\ Cardinality({j \in Jobs : jobs[j].audio = "running"}) <= 1)
    /\ [][(isExporting /\ requestOutcome' # "none")
            => (requestOutcome' = "ignored" /\ UNCHANGED exportVars)]_vars

\* a request has just been rejected while a job records with progress shown
C4_Witness ==
    /\ requestOutcome = "ignored"
    /\ isExporting
    /\ exportProgress > 0
    /\ \E j \in Jobs : jobs[j].recorder = "recording" /\ jobs[j].video = "attached"

\* C5: on every exit path of an export job its resources are released: a job
\* whose call is over has its video detached, its audio context closed and
\* its recorder not recording; once no job is under way isExporting is false;
\* and whenever isExporting is false (every exit, cancellation included) no
\* job holds an attached video, an open audio context or a recording recorder.
C5_ResourcesReleased ==
    /\ \A j \in Jobs : JobOver(j) => Released(j)
    /\ (\A j \in Jobs : jobs[j].pc = "none" \/ JobOver(j)) => ~isExporting
    /\ ~isExporting => \A j \in Jobs : Released(j)

\* C6: an export request that passes the guard is a cache hit if and only if
\* an entry is cached and its key equals the key of the request (so after a
\* change of style, view mode or format the next request is a miss), and
\* the single slot only ever changes to empty or to the artifact of the job
\* that has just completed, which is the newest job.
C6_CacheHitIffSameKey ==
    [][/\ (requestOutcome' # "none" /\ requestOutcome' # "ignored")
           => (requestOutcome' = "hit"
                 <=> (cachedExportRef # Null /\ cachedExportRef.key = CurrentExportKey))
       /\ cachedExportRef' # cachedExportRef
           => \/ cachedExportRef' = Null
              \/ \E j \in Jobs :
                    /\ jobs[j].stopEvent /\ jobs[j].onstop /\ ~jobs'[j].stopEvent
                    /\ j = NewestJob
                    /\ cachedExportRef' = [key |-> jobs[j].key, blob |-> j,
                                            fileName |-> jobs[j].fileName]]_vars

\* C7: a request that passes the guard with a key equal to the cached key is
\* a hit: the cached blob is served, isExporting stays false, no job, video,
\* audio context or recorder is created, and the progress, the ETA and the
\* cache entry are unchanged.
C7_HitDoesNoWork ==
    [][(/\ requestOutcome' # "none"
        /\ ~RequestIgnored
        /\ cachedExportRef # Null
        /\ cachedExportRef.key = CurrentExportKey)
       => /\ requestOutcome' = "hit"
          /\ lastDownload' = cachedExportRef.blob
          /\ ~isExporting'
          /\ UNCHANGED <<jobs, mediaRecorderRef, offlineVideoRef, exportAudioCtxRef,
                         exportProgress, exportTimeLeft, cachedExportRef>>]_vars

\* a hit has just served the cached artifact of a finished job, with the
\* progress of that job still standing
C7_Witness ==
    /\ requestOutcome = "hit"
    /\ lastDownload # 0
    /\ lastDownload = cachedExportRef.blob
    /\ exportProgress > 0
    /\ ~isExporting

\* C8: when the recorder of a job reports an error while recording, a
\* failure result is shown, the job's resources are released and isExporting
\* is false, and nothing of that job is written to the cache, downloaded or
\* reported as a success, the stop event that follows the error included.
C8_RecorderErrorFailsJob ==
    [][\A j \in Jobs : RecorderError(j) =>
          /\ exportResult' = Failure
          /\ cachedExportRef' = cachedExportRef
          /\ lastDownload' = 0
          /\ Released(j)'
          /\ ~isExporting']_vars

\* C9: after cancelExport on a running export the recorder of the running
\* job is not recording and the stop event it still has to deliver reports
\* nothing, its video is detached and its audio context closed, isExporting
\* is false, progress is 0 and the ETA is unset, no result is reported and
\* the cache is unchanged.
C9_CancelReleases ==
    [][CancelExport =>
          /\ NewestJob # 0 =>
                /\ Released(NewestJob)'
                /\ jobs'[NewestJob].stopEvent => ~jobs'[NewestJob].onstop
          /\ ~isExporting'
          /\ exportProgress' = 0
          /\ exportTimeLeft' = NoTimeLeft
          /\ exportResult' = exportResult
          /\ cachedExportRef' = cachedExportRef]_vars

\* C10: under fair scheduling of the job's continuations, frame callbacks and
\* recorder events, whenever isExporting is true it is eventually false
\* again, whatever the user does meanwhile.
C10_ExportTerminates == isExporting ~> ~isExporting

\* the phase of a job, read off what is left of its call and its recorder:
\* finalizing while the stop event that runs onstop is due; terminal once the
\* call has ended or its video has been unloaded (cleanup, cancelExport, a
\* change of the source)
JobPhase(job) ==
    IF job.pc = "none" THEN "idle"
    ELSE IF job.stopEvent /\ job.onstop THEN "finalizing"
    ELSE IF job.pc = "ended" \/ job.video = "detached" THEN "terminal"
    ELSE IF job.recorder = "recording" THEN "recording"
    ELSE "preparing"

PhaseRank(phase) ==
    CASE phase = "idle" -> 0
      [] phase = "preparing" -> 1
      [] phase = "recording" -> 2
      [] phase = "finalizing" -> 3
      [] phase = "terminal" -> 4

\* C11: every job moves through its phases only in the order idle,
\* preparing, recording, finalizing, terminal (completed, failed or
\* cancelled): recording is entered only from preparing and finalizing only
\* from recording, the recorder is started only in the step from preparing to
\* recording (so at most once), and no callback or continuation of a job that
\* is terminal writes the cache, reports a result or changes isExporting.
C11_PhasesInOrder ==
    [][\A j \in Jobs :
          LET p == JobPhase(jobs[j])
              q == JobPhase(jobs'[j])
          IN  /\ PhaseRank(q) >= PhaseRank(p)
              /\ (q = "recording" /\ p # q) => p = "preparing"
              /\ (q = "finalizing" /\ p # q) => p = "recording"
              /\ (jobs'[j].recorder = "recording" /\ jobs[j].recorder # "recording")
                    => (p = "preparing" /\ q = "recording")
              /\ (p = "terminal" /\ (JobStep(j) \/ JobFault(j)))
                    => UNCHANGED <<cachedExportRef, exportResult, isExporting>>]_vars

\* --- the export request on any runtime, up to the first await of the call:
\* what MediaRecorder.isTypeSupported accepts is any set of the listed types,
\* and the format menu offers every entry of EXPORT_FORMATS
AllExportFormats == {"mp4", "webm", "mov", "mkv", "avi"}

InitRequest ==
    /\ NormIdle
    /\ PlayerIdle
    /\ AppIdle
    /\ supportedMimes \in SUBSET AllMimes
    /\ hasVideoFrameCallback = TRUE
    /\ PlainSource

NextRequest ==
    \/ ProcessSelectedFile
    \/ ExecuteGeneration
    \/ GenerationStep
    \/ \E format \in AllExportFormats : SetExportFormat(format)
    \/ HandleExportBurned
    \/ CancelExport

SpecRequest == InitRequest /\ [][NextRequest]_vars

\* C12: a request that gets past the cache starts a job exactly when some
\* entry of the requested format's preference list is supported, and the job
\* records with the first supported entry of that list (no earlier entry is
\* supported); in particular format mp4 on a runtime that supports only the
\* webm family starts a job with the webm entry video/webm;codecs=vp9,opus.
C12_FirstSupportedMime ==
    [][requestOutcome' \in {"started", "unsupported"} =>
          LET list == PreferredMimes(exportFormat)
              ok == {i \in 1..Len(list) : list[i] \in supportedMimes}
          IN  /\ requestOutcome' = "started" <=> ok # {}
              /\ ok # {} =>
                    \E j \in Jobs, i \in ok :
                        /\ \A k \in ok : i <= k
                        /\ jobs[j].pc = "none"
                        /\ jobs'[j].pc = "waitMeta"
                        /\ jobs'[j].mimeType = list[i]
              /\ (exportFormat = "mp4" /\ supportedMimes = WebmFamily) =>
                    /\ requestOutcome' = "started"
                    /\ isExporting'
                    /\ \E j \in Jobs : /\ jobs[j].pc = "none"
                                       /\ jobs'[j].mimeType = "video/webm;codecs=vp9,opus"]_vars

\* an mp4 export has just started on a runtime that supports only the webm
\* family
C12_Witness ==
    /\ requestOutcome = "started"
    /\ exportFormat = "mp4"
    /\ supportedMimes = WebmFamily
    /\ isExporting
    /\ \E j \in Jobs : jobs[j].pc = "waitMeta" /\ jobs[j].mimeType = "video/webm;codecs=vp9,opus"

\* --- the export on runtimes with a partial capability: none of the types,
\* one mp4 type that only the mp4 list names, or one webm type that only the
\* webm list names; no runtime fault
PartialRuntimes ==
    {[mimes |-> {}, frameCallback |-> TRUE],
     [mimes |-> {"video/mp4;codecs=avc1.42E01E,mp4a.40.2"}, frameCallback |-> TRUE],
     [mimes |-> {"video/webm;codecs=vp8,opus"}, frameCallback |-> FALSE]}

InitCapability ==
    /\ NormIdle
    /\ PlayerIdle
    /\ AppIdle
    /\ \E runtime \in PartialRuntimes :
          /\ supportedMimes = runtime.mimes
          /\ hasVideoFrameCallback = runtime.frameCallback
    /\ PlainSource

NextCapability ==
    \/ NextRequest
    \/ DismissExportResult
    \/ \E j \in Jobs : JobStep(j)

SpecCapability == InitCapability /\ [][NextCapability]_vars

\* C13: when no entry of the requested format's preference list is supported,
\* a request made while no export runs fails before any work: no job, video,
\* audio context or recorder is created, nothing is drawn (progress and ETA
\* stay as they were), isExporting stays false and the cache is unchanged.
C13_UnsupportedDoesNoWork ==
    [][(/\ requestOutcome' # "none"
        /\ ~isExporting
        /\ \A i \in 1..Len(PreferredMimes(exportFormat)) :
              PreferredMimes(exportFormat)[i] \notin supportedMimes)
       => /\ requestOutcome' = "unsupported"
          /\ ~isExporting'
          /\ lastDownload' = 0
          /\ UNCHANGED <<jobs, mediaRecorderRef, offlineVideoRef, exportAudioCtxRef,
                         exportProgress, exportTimeLeft, cachedExportRef>>]_vars

\* a request for a format the runtime cannot record has just failed, after an
\* export in another format had completed and filled the cache
C13_Witness ==
    /\ requestOutcome = "unsupported"
    /\ supportedMimes # {}
    /\ cachedExportRef # Null
    /\ exportProgress > 0
    /\ ~isExporting

\* --- the size of the export, for source videos around the sizes in use
\* (VGA, 720p, 1080p, 1440p, 4K; landscape, portrait and 4:3) and their odd
\* neighbours
SizeAnchors == {0, 640, 1080, 1280, 1920, 2560, 3840}
MaxOffset == 2
SourceSizes == {anchor + offset : anchor \in SizeAnchors, offset \in 0..MaxOffset}

InitDimensions ==
    /\ NormIdle
    /\ PlayerIdle
    /\ AppIdle
    /\ supportedMimes = AllMimes
    /\ hasVideoFrameCallback = TRUE
    /\ videoWidth \in SourceSizes
    /\ videoHeight \in SourceSizes

NextDimensions ==
    \/ ProcessSelectedFile
    \/ ExecuteGeneration
    \/ GenerationStep
    \/ HandleExportBurned
    \/ CancelExport
    \/ \E j \in Jobs : MetadataLoaded(j)
    \/ \E j \in Jobs : MetadataLoadedNoContext(j)

SpecDimensions == InitDimensions /\ [][NextDimensions]_vars

\* the export canvas has been sized by a job
CanvasSized == \E j \in Jobs : jobs[j].pc \in {"waitResume", "ended"}

\* C14: for every source resolution the export size is within the maximum:
\* the width is at most 1920 and the height at most 1080.
C14_SizeClamped ==
    CanvasSized => (canvasWidth <= MAX_WIDTH /\ canvasHeight <= MAX_HEIGHT)

\* C15: for every source resolution both dimensions of the export are even.
C15_SizeEven ==
    CanvasSized => (canvasWidth % 2 = 0 /\ canvasHeight % 2 = 0)

\* the canvas has been sized for a source that is scaled to an odd height,
\* which was then made even
C15_Witness ==
    /\ CanvasSized
    /\ videoHeight > MAX_HEIGHT
    /\ ScaledSize(videoWidth, videoHeight).height % 2 = 1
    /\ canvasHeight = ScaledSize(videoWidth, videoHeight).height - 1
    /\ canvasWidth = MAX_WIDTH

\* C16: normalization is idempotent: normalizing the list a normalization
\* has returned gives the identical list (same order, times and texts).
C16_Idempotent ==
    normPc = "done" => PostProcessSubtitles(processed) = processed

\* a normalized list that differs from its raw list and holds a segment of
\* zero duration, which a second normalization first stretches and then
\* trims again
C16_Witness ==
    /\ normPc = "done"
    /\ Len(processed) = 3
    /\ processed # rawSubtitles
    /\ \E i \in 1..Len(processed) : processed[i].endTime = processed[i].startTime
    /\ \E i \in 1..Len(processed) : processed[i].endTime # rawSubtitles[i].endTime

\* the position in the raw list of the segment that list holds at position k
\* (the texts of the i-th raw segment name i)
RawIndex(list, k) == list[k].english[2]

\* C20: the result of normalization is the three-step reference. It holds
\* the segments of the raw list, each once and with its startTime and both
\* texts unchanged, in ascending startTime order with segments of equal
\* startTime in their raw order (stable sort); and the endTime of each is the
\* raw endTime, replaced by startTime + 1.5 s if the raw endTime <= startTime,
\* and then replaced by the next segment's startTime if it is greater than
\* that. Instances (in ticks of 0.5 s): [{0,2,A},{1.5,3,B}] gives
\* [{0,1.5,A},{1.5,3,B}] and [{5,5,X}] gives [{5,6.5,X}].
C20_ThreeStepReference ==
    /\ normPc = "done" =>
          /\ Len(processed) = Len(rawSubtitles)
          /\ {RawIndex(processed, k) : k \in 1..Len(processed)} = 1..Len(rawSubtitles)
          /\ \A k \in 1..Len(processed) :
                LET raw == rawSubtitles[RawIndex(processed, k)]
                    fixed == IF raw.endTime <= raw.startTime
                             THEN raw.startTime + MinDuration ELSE raw.endTime
                IN  /\ processed[k].startTime = raw.startTime
                    /\ processed[k].english = raw.english
                    /\ processed[k].chinese = raw.chinese
                    /\ processed[k].endTime =
                          IF k < Len(processed) /\ fixed > processed[k + 1].startTime
                          THEN processed[k + 1].startTime ELSE fixed
          /\ \A k \in 1..(Len(processed) - 1) :
                \/ processed[k].startTime < processed[k + 1].startTime
                \/ /\ processed[k].startTime = processed[k + 1].startTime
                   /\ RawIndex(processed, k) < RawIndex(processed, k + 1)
    /\ PostProcessSubtitles(<<SubtitleSegment(0, 4, 1), SubtitleSegment(3, 6, 2)>>)
          = <<SubtitleSegment(0, 3, 1), SubtitleSegment(3, 6, 2)>>
    /\ PostProcessSubtitles(<<SubtitleSegment(10, 10, 1)>>) = <<SubtitleSegment(10, 13, 1)>>

\* a normalized list of three in which the sort has moved a segment, two
\* segments of equal start have kept their raw order, the duration fix has
\* acted on one segment and the trim on another
C20_Witness ==
    /\ normPc = "done"
    /\ Len(processed) = 3
    /\ RawIndex(processed, 1) # 1
    /\ \E k \in 1..2 : /\ processed[k].startTime = processed[k + 1].startTime
                       /\ RawIndex(processed, k) < RawIndex(processed, k + 1)
    /\ \E k \in 1..3 : LET raw == rawSubtitles[RawIndex(processed, k)]
                       IN  /\ raw.endTime <= raw.startTime
                           /\ processed[k].endTime = raw.startTime + MinDuration
    /\ \E k \in 1..2 : LET raw == rawSubtitles[RawIndex(processed, k)]
                       IN  /\ raw.endTime > raw.startTime
                           /\ processed[k].endTime < raw.endTime

\* --- the answer of the collaborator, as generateSubtitles parses it
\* a segment of the answer that lacks one of its two texts; its times are one
\* tick apart
RequiredFields == {"startTime", "endTime", "english", "chinese"}

IncompleteSegment(s, missing, i) ==
    [field \in RequiredFields \ {missing} |-> SubtitleSegment(s, s + 1, i)[field]]

\* the answer holds a segment without its english or without its chinese
\* text: JSON.parse yields an object without that property
ReceiveIncompleteSegment ==
    /\ normPc = "raw"
    /\ Len(rawSubtitles) < MaxLen
    /\ \E s \in 0..MaxTime, missing \in {"english", "chinese"} :
          rawSubtitles' = Append(rawSubtitles,
                                 IncompleteSegment(s, missing, Len(rawSubtitles) + 1))
    /\ UNCHANGED <<processed, normPc, locVars, appVars, expVars, envVars, canvasVars, srtContent>>

\* the call made for file f gets the answer, JSON.parse accepts it, and
\* executeGeneration stores what postProcessSubtitles returns:
\* setSubtitles(result); setStatus('completed')
ResponseParsed(f) ==
    /\ generations[f] = "analyzing"
    /\ normPc = "raw"
    /\ subtitles' = PostProcessSubtitles(rawSubtitles)
    /\ normPc' = "loaded"
    /\ status' = "completed"
    /\ videoPaused' = FALSE
    /\ generations' = [generations EXCEPT ![f] = "none"]
    /\ UNCHANGED <<rawSubtitles, processed, videoUrl, viewMode, subStyle, exportFormat,
                   settingChanges, videoTime, activeSubIndexRef, activeSubRef,
                   activeSubtitle, lookedUp, exportVars, envVars, canvasVars, srtContent>>
    /\ NoEffect

InitParse == InitNorm

\* GenerationFailed(f): the answer is empty or JSON.parse throws
NextParse ==
    \/ ProcessSelectedFile
    \/ ExecuteGeneration
    \/ ReceiveSegment
    \/ ReceiveIncompleteSegment
    \/ \E f \in 1..MaxFiles : GenerationAnalyzing(f)
    \/ \E f \in 1..MaxFiles : ResponseParsed(f)
    \/ \E f \in 1..MaxFiles : GenerationFailed(f)

SpecParse == InitParse /\ [][NextParse]_vars

Complete(segment) == DOMAIN segment = RequiredFields

\* C18: an answer in which a segment lacks a required field fails the whole
\* generation: it is never parsed into a completed generation, and the
\* segment store never holds a segment that lacks a field.
C18_IncompleteFailsGeneration ==
    /\ normPc = "loaded" => \A i \in 1..Len(rawSubtitles) : Complete(rawSubtitles[i])
    /\ \A k \in 1..Len(subtitles) : Complete(subtitles[k])

\* --- the export beside the playing visible player
\* togglePlay of the Player: the play button, a click on the video, the
\* space key
TogglePlay ==
    /\ videoUrl # 0
    /\ videoPaused' = ~videoPaused
    /\ UNCHANGED <<subtitles, videoTime, activeSubIndexRef, activeSubRef, activeSubtitle,
                   lookedUp, normVars, appVars, exportVars, envVars, canvasVars, srtContent>>
    /\ NoEffect

InitPlayback ==
    /\ NormIdle
    /\ PlayerIdle
    /\ AppIdle
    /\ supportedMimes = AllMimes
    /\ hasVideoFrameCallback = TRUE
    /\ PlainSource

NextPlayback ==
    \/ ProcessSelectedFile
    \/ ExecuteGeneration
    \/ \E f \in 1..MaxFiles : GenerationAnalyzing(f)
    \/ \E f \in 1..MaxFiles : GenerationCompleted(f)
    \/ TogglePlay
    \/ PlaybackFrame
    \/ HandleExportBurned
    \/ CancelExport
    \/ \E j \in Jobs : JobStep(j)
    \/ \E j \in Jobs : RecorderError(j)

SpecPlayback == InitPlayback /\ [][NextPlayback]_vars

\* a step of the export: a request (whatever its outcome), or a step that
\* changes a job, the refs, the progress, the ETA, the result or the cache
\* without being the selection of another file: a continuation or frame of
\* a job, a recorder event, the cancellation
ExportStep ==
    /\ videoUrl' = videoUrl
    /\ exportVars' # exportVars \/ requestOutcome' # "none"

\* C19: no step of an export (its start, a continuation or drawn frame, its
\* completion, a failure, the cancellation) changes the current time or the
\* paused state of the visible player.
C19_PlayerUntouched ==
    [][ExportStep => UNCHANGED <<videoTime, videoPaused>>]_vars

\* the visible player has been paused by the user at a later time while a
\* job records and has drawn frames
C19_Witness ==
    /\ videoPaused
    /\ videoTime > 0
    /\ isExporting
    /\ exportProgress > 0
    /\ \E j \in Jobs : jobs[j].recorder = "recording" /\ jobs[j].pc = "drawing"

\* --- the caption file
\* In the runs of the caption file a text is the sequence of its lines (a
\* text without a line break is one line, the empty text one empty line),
\* and the file is the sequence of the lines of srtContent.
\* s * 1000 for a time of s ticks of half a second
TickMilliseconds == 500

TwoDigits(n) == <<n \div 10, n % 10>>
ThreeDigits(n) == <<n \div 100, (n \div 10) % 10, n % 10>>

\* formatSrtTime: the Date of s * 1000 ms after the epoch, and of its ISO
\* string the 12 characters of the time of day, HH:MM:SS,mmm
FormatSrtTime(s) ==
    LET timeOfDay == (s * TickMilliseconds) % 86400000
    IN  [hours |-> TwoDigits(timeOfDay \div 3600000),
         minutes |-> TwoDigits((timeOfDay \div 60000) % 60),
         seconds |-> TwoDigits((timeOfDay \div 1000) % 60),
         millis |-> ThreeDigits(timeOfDay % 1000)]

SrtLine(kind, payload) == [kind |-> kind, payload |-> payload]

TextLines(text) == [k \in 1..Len(text) |-> SrtLine("text", text[k])]

\* the lines one segment adds to srtContent
SrtEntry(sub, index) ==
    <<SrtLine("index", index + 1),
      SrtLine("timing", [from |-> FormatSrtTime(sub.startTime),
                         to |-> FormatSrtTime(sub.endTime)])>>
    \o TextLines(sub.english) \o TextLines(sub.chinese) \o <<SrtLine("text", "")>>

\* subtitles.forEach((sub, index) => { srtContent += ... })
RECURSIVE SrtContent(_, _)
SrtContent(list, n) ==
    IF n = 0 THEN <<>>
    ELSE SrtContent(list, n - 1) \o SrtEntry(list[n], n - 1)

\* downloadSRT, by the button shown with a completed generation
DownloadSRT ==
    /\ Len(subtitles) # 0
    /\ srtContent' = SrtContent(subtitles, Len(subtitles))
    /\ UNCHANGED <<normVars, locVars, appVars, exportVars, envVars, canvasVars>>
    /\ NoEffect

\* times of day around the hours and the day, in ticks
SrtTimes == {0, 7323, 172799, 172800}
SrtTexts == {<<"Hello">>, <<"Hello", "world">>, <<"">>}

\* a segment of the answer with any of the times and english texts, half a
\* second long
ReceiveCaptionSegment ==
    /\ normPc = "raw"
    /\ Len(rawSubtitles) < MaxLen
    /\ \E s \in SrtTimes, text \in SrtTexts :
          rawSubtitles' = Append(rawSubtitles,
              [startTime |-> s, endTime |-> s + 1, english |-> text, chinese |-> <<"ni hao">>])
    /\ UNCHANGED <<processed, normPc, locVars, appVars, expVars, envVars, canvasVars, srtContent>>

InitSrt == InitNorm

NextSrt ==
    \/ ProcessSelectedFile
    \/ ExecuteGeneration
    \/ ReceiveCaptionSegment
    \/ \E f \in 1..MaxFiles : GenerationAnalyzing(f)
    \/ \E f \in 1..MaxFiles : ResponseParsed(f)
    \/ DownloadSRT

SpecSrt == InitSrt /\ [][NextSrt]_vars

\* the reader of a caption file: entries are runs of lines between empty
\* lines; of an entry the first line is the number, the second the timing
\* line, the third the primary and the fourth the secondary text
IsBlank(line) == line.kind = "text" /\ line.payload = ""

RECURSIVE BlockEnd(_, _)
BlockEnd(lines, i) ==
    IF i < Len(lines) /\ ~IsBlank(lines[i + 1]) THEN BlockEnd(lines, i + 1) ELSE i

Number(digits) ==
    IF Len(digits) = 2 THEN 10 * digits[1] + digits[2]
    ELSE 100 * digits[1] + 10 * digits[2] + digits[3]

\* HH:MM:SS,mmm in milliseconds
ParseSrtTime(time) ==
    ((Number(time.hours) * 60 + Number(time.minutes)) * 60 + Number(time.seconds)) * 1000
    + Number(time.millis)

RECURSIVE ParseSrt(_, _)
ParseSrt(lines, i) ==
    IF i > Len(lines) THEN <<>>
    ELSE IF IsBlank(lines[i]) THEN ParseSrt(lines, i + 1)
    ELSE LET block == SubSeq(lines, i, BlockEnd(lines, i))
         IN  IF Len(block) >= 2 /\ block[1].kind = "index" /\ block[2].kind = "timing"
             THEN <<[startTime |-> ParseSrtTime(block[2].payload.from),
                     endTime |-> ParseSrtTime(block[2].payload.to),
                     primary |-> IF Len(block) >= 3 THEN block[3].payload ELSE "",
                     secondary |-> IF Len(block) >= 4 THEN block[4].payload ELSE ""]>>
                  \o ParseSrt(lines, BlockEnd(lines, i) + 1)
             ELSE ParseSrt(lines, BlockEnd(lines, i) + 1)

\* C17: the caption file downloadSRT writes for the segment list reads back
\* as the same number of segments, each with its startTime and endTime
\* within 1 ms of the original and with the original primary and secondary
\* text.
C17_SrtRoundTrip ==
    [][srtContent' # srtContent =>
          LET parsed == ParseSrt(srtContent', 1)
          IN  /\ Len(parsed) = Len(subtitles)
              /\ \A i \in 1..Len(subtitles) :
                    /\ Abs(parsed[i].startTime - subtitles[i].startTime * TickMilliseconds) <= 1
                    /\ Abs(parsed[i].endTime - subtitles[i].endTime * TickMilliseconds) <= 1
                    /\ subtitles[i].english = <<parsed[i].primary>>
                    /\ subtitles[i].chinese = <<parsed[i].secondary>>]_vars

\* --- the trim of postProcessSubtitles and the duration of a segment
\* every raw list of the runs of the normalization: up to MaxLen segments
\* with start and end times in 0..MaxTime, in any order
RawLists ==
    UNION {{[i \in 1..n |-> SubtitleSegment(times[i][1], times[i][2], i)] :
               times \in [1..n -> (0..MaxTime) \X (0..MaxTime)]} : n \in 0..MaxLen}

\* C21 as stated: there is a raw segment list (for instance one heavily out
\* of order) for which the trim of the normalization leaves a segment whose
\* endTime is strictly below its own startTime: whatever has been received
\* of the answer so far, with nothing received to begin with, some raw list
\* that starts with it is such a list.
C21_TrimBelowStartExists ==
    \E list \in RawLists :
        /\ Len(rawSubtitles) <= Len(list)
        /\ SubSeq(list, 1, Len(rawSubtitles)) = rawSubtitles
        /\ \E i \in 1..Len(list) :
              PostProcessSubtitles(list)[i].endTime < PostProcessSubtitles(list)[i].startTime

\* C21, amended: for every raw segment list, however far out of order, the
\* trim leaves no segment with endTime strictly below its own startTime: the
\* list is sorted by startTime before the trim, so the startTime an end is
\* trimmed to is never below the segment's own startTime. (It can be equal:
\* the duration is not validated again after the trim.)
C21_TrimNeverBelowStart ==
    normPc = "done" =>
        \A i \in 1..Len(processed) : processed[i].endTime >= processed[i].startTime

\* a raw list in descending order of start, normalized: the sort has turned
\* it round and the trim has cut a segment of positive raw duration down to
\* its own startTime
C21_Witness ==
    /\ normPc = "done"
    /\ Len(rawSubtitles) = 3
    /\ rawSubtitles[1].startTime > rawSubtitles[2].startTime
    /\ rawSubtitles[2].startTime >= rawSubtitles[3].startTime
    /\ \E k \in 1..2 :
          LET raw == rawSubtitles[RawIndex(processed, k)]
          IN  /\ raw.endTime > raw.startTime
              /\ processed[k].endTime = processed[k].startTime
              /\ processed[k].endTime = processed[k + 1].startTime

\* --- seeks over a fixed normalized list
\* handleSeek of the Player (the progress bar): the clock is set, the cursor
\* reset and updateUI called at once
PlayerHandleSeek ==
    /\ videoUrl # 0
    /\ \E t \in LocTimes :
          LET r == Lookup(subtitles, t, -1, activeSubRef)
          IN  /\ videoTime' = t
              /\ IF r.foundSub # activeSubRef
                 THEN /\ activeSubRef' = r.foundSub
                      /\ activeSubIndexRef' = r.foundIndex
                      /\ activeSubtitle' = r.foundSub
                 ELSE /\ activeSubIndexRef' = r.cursor
                      /\ UNCHANGED <<activeSubRef, activeSubtitle>>
    /\ lookedUp' = TRUE
    /\ UNCHANGED <<subtitles, videoPaused, normVars, appVars, exportVars, envVars, canvasVars, srtContent>>
    /\ NoEffect

\* handleSeek of the App (a click on a segment of the subtitle list): the
\* clock of the visible video is set to the start of the segment and the
\* video played; the next lookup is that of the next animation frame
AppHandleSeek ==
    /\ videoUrl # 0
    /\ \E i \in 1..Len(subtitles) : videoTime' = subtitles[i].startTime
    /\ videoPaused' = FALSE
    /\ lookedUp' = FALSE
    /\ UNCHANGED <<subtitles, activeSubIndexRef, activeSubRef, activeSubtitle,
                   normVars, appVars, exportVars, envVars, canvasVars, srtContent>>
    /\ NoEffect

InitSeek == InitNorm

NextSeek ==
    \/ ProcessSelectedFile
    \/ ReceiveSegment
    \/ SetSubtitles
    \/ TogglePlay
    \/ PlaybackFrame
    \/ PlayerHandleSeek
    \/ AppHandleSeek

SpecSeek == InitSeek /\ [][NextSeek]_vars

\* C22: over a fixed normalized list and any sequence of query times, with
\* jumps backward made without a reset of the cursor (the seek from the
\* subtitle list) or with the cursor alone reset (the progress bar), every
\* lookup returns a segment of the list whose interval contains the query
\* time whenever the list has such a segment, and none otherwise.
C22_LookupFindsContaining ==
    lookedUp =>
        /\ activeSubtitle = activeSubRef
        /\ IF activeSubRef # Null
           THEN /\ Contains(activeSubRef.seg, videoTime)
                /\ \E i \in 1..Len(subtitles) : subtitles[i] = activeSubRef.seg
           ELSE \A i \in 1..Len(subtitles) : ~Contains(subtitles[i], videoTime)

\* a lookup after a jump back from within the second segment of the list to
\* the instant at which the first segment ends and the second starts: the
\* locator holds the second segment, which contains that time, where a scan
\* from index 0 yields the first one
C22_Witness ==
    /\ lookedUp
    /\ Len(subtitles) = 3
    /\ activeSubRef # Null
    /\ activeSubRef.seg = subtitles[2]
    /\ videoTime = subtitles[2].startTime
    /\ videoTime = subtitles[1].endTime
    /\ subtitles[1].startTime < videoTime
    /\ videoTime < subtitles[3].startTime
    /\ LinearScan(subtitles, videoTime, 0) # activeSubRef

\* the locator is reset: no cursor and no cached segment
LocatorReset(indexRef, subRef) == indexRef = -1 /\ subRef = Null

\* C23: after a seek by the progress bar, after a seek from the subtitle
\* list and after a change of the source, both parts of the locator are
\* reset before the next lookup: the cursor is -1 and the cached segment
\* none. The seek by the progress bar looks up in the same handler, so its
\* lookup leaves what the lookup of a reset locator leaves; the other two
\* leave the locator reset.
C23_SeekResetsLocator ==
    [][/\ PlayerHandleSeek =>
             LET r == Lookup(subtitles, videoTime', -1, Null)
             IN  activeSubRef' = r.foundSub /\ activeSubIndexRef' = r.foundIndex
       /\ AppHandleSeek => LocatorReset(activeSubIndexRef', activeSubRef')
       /\ ProcessSelectedFile => LocatorReset(activeSubIndexRef', activeSubRef')]_vars

\* --- a regeneration on one source video, beside the playing Player: the
\* first generation returns any list, the regeneration the list GenResult
InitRegeneration == InitNorm

NextRegeneration ==
    \/ videoUrl = 0 /\ ProcessSelectedFile
    \/ ExecuteGeneration
    \/ ReceiveSegment
    \/ \E f \in 1..MaxFiles : GenerationAnalyzing(f)
    \/ \E f \in 1..MaxFiles : ResponseParsed(f)
    \/ \E f \in 1..MaxFiles : normPc = "loaded" /\ GenerationCompleted(f)
    \/ PlaybackFrame

SpecRegeneration == InitRegeneration /\ [][NextRegeneration]_vars

\* C24: the replacement of the segment store is atomic for its readers: the
\* segment a lookup of the locator returns, from its cache or from a scan, is
\* an element of the list that is the store at that lookup, never a segment
\* of a list that has been replaced.
C24_LookupReadsCurrentStore ==
    [][PlaybackFrame =>
          (activeSubRef' # Null =>
              \E i \in 1..Len(subtitles') : subtitles'[i] = activeSubRef'.seg)]_vars

\* --- the cancellation of an export on one source video, on a runtime that
\* fails no job by itself: the video of a job is unloaded by cancelExport
\* only, and a resume() on the audio context cancelExport has closed may
\* reject (AudioSetupFails)
InitCancel == InitExport

NextCancel ==
    \/ videoUrl = 0 /\ ProcessSelectedFile
    \/ ExecuteGeneration
    \/ \E f \in 1..MaxFiles : GenerationAnalyzing(f)
    \/ \E f \in 1..MaxFiles : GenerationCompleted(f)
    \/ HandleExportBurned
    \/ CancelExport
    \/ \E j \in Jobs : JobStep(j)
    \/ \E j \in Jobs : AudioSetupFails(j)

SpecCancel == InitCancel /\ [][NextCancel]_vars

\* the call of the job is suspended at the metadata wait, at the resume of
\* the audio context or at the initial seek
Preparing(job) == job.pc \in {"waitMeta", "waitResume", "waitSeeked"}

\* C25: the cancellation is honoured at every point of a job. A job that
\* cancelExport has stopped while it was preparing (its video is unloaded)
\* afterwards starts no recorder and acquires nothing more: it makes no
\* recorder and no audio context and sets no ref; and after every
\* cancelExport no recorder is recording.
C25_CancelHonoured ==
    [][/\ \A j \in Jobs :
             (Preparing(jobs[j]) /\ jobs[j].video = "detached") =>
                 /\ jobs'[j].recorder = jobs[j].recorder
                 /\ jobs'[j].audio # "running" \/ jobs[j].audio = "running"
                 /\ mediaRecorderRef' = j => mediaRecorderRef = j
       /\ CancelExport => \A j \in Jobs : jobs'[j].recorder # "recording"]_vars

\* --- the reported ETA, frame by frame
\* wall-clock times since the start of the job (ticks of 0.1 s) as the frames
\* of the runs of the ETA find them
EtaElapsed == {25, 83, 86}

\* the frame callback of job j, run when its video is at time t, elapsed
\* ticks after the start of the job
DrawFrameAt(j, t, elapsed) ==
    /\ jobs[j].pc = "drawing"
    /\ jobs[j].video = "attached" \/ ~hasVideoFrameCallback
    /\ IF jobs[j].video = "attached" THEN t > jobs[j].time ELSE t = 0
    /\ Commit(DrawFrameBody(ExportState, j, t, elapsed))
    /\ requestOutcome' = "none"
    /\ UNCHANGED <<normVars, locVars, appVars, envVars, canvasVars, srtContent>>

InitEta == InitExport

NextEta ==
    \/ videoUrl = 0 /\ ProcessSelectedFile
    \/ ExecuteGeneration
    \/ \E f \in 1..MaxFiles : GenerationAnalyzing(f)
    \/ \E f \in 1..MaxFiles : GenerationCompleted(f)
    \/ HandleExportBurned
    \/ CancelExport
    \/ \E j \in Jobs : MetadataLoaded(j)
    \/ \E j \in Jobs : ResumeResolved(j)
    \/ \E j \in Jobs : Seeked(j)
    \/ \E j \in Jobs : PlayResolved(j)
    \/ \E j \in Jobs, t \in 0..VideoDuration, elapsed \in EtaElapsed : DrawFrameAt(j, t, elapsed)
    \/ \E j \in Jobs : RecorderStop(j)

SpecEta == InitEta /\ [][NextEta]_vars

\* C26: while a job records, once an ETA is reported, a frame changes the
\* reported ETA only if the remaining time it computes,
\* elapsed * (duration - t) / t, differs from the reported value by more
\* than 0.5 s; otherwise the reported value is left exactly as it was. (In
\* ticks of 0.1 s: |10 * reported - remaining| > 5.) A reported ETA is at
\* least 1 s, so the test !prev of the update is true of the unset ETA only.
C26_EtaHysteresis ==
    /\ [](exportTimeLeft # NoTimeLeft => exportTimeLeft[1] >= 1)
    /\ [][\A j \in Jobs, t \in 0..VideoDuration, elapsed \in EtaElapsed :
            (DrawFrameAt(j, t, elapsed) /\ exportTimeLeft # NoTimeLeft /\ t > 0) =>
                (exportTimeLeft' # exportTimeLeft =>
                    Abs(10 * t * exportTimeLeft[1] - elapsed * (VideoDuration - t)) > 5 * t)]_vars

\* a recording job has drawn the frame at 0.2 s with 8 s reported: no frame
\* at 0.2 s computes a time that is reported as 8 s, so the 8 s was reported
\* by the frame at 0.1 s (7.5 s computed) and kept by this one, which
\* computed 8.3 s
C26_Witness ==
    /\ exportTimeLeft = <<8>>
    /\ isExporting
    /\ \E j \in Jobs : /\ jobs[j].pc = "drawing"
                       /\ jobs[j].recorder = "recording"
                       /\ jobs[j].time = 2
    /\ \A elapsed \in EtaElapsed : CeilDiv(elapsed * (VideoDuration - 2), 10 * 2) # 8

\* C27: the segment store only ever holds the result of a generation run on
\* the source video that is loaded: it is empty or the list generated for the
\* current file, and the status is completed only with that list in the
\* store. So once another file has been selected (store cleared, status
\* idle), a generation started for the previous file installs nothing and
\* completes nothing.
C27_StoreOfCurrentSource ==
    /\ subtitles # <<>> => (videoUrl # 0 /\ subtitles = GenResult(videoUrl))
    /\ status = "completed" => (videoUrl # 0 /\ subtitles = GenResult(videoUrl))

\* C28: isExporting is true exactly while an export job holds live
\* resources: while it is false no recorder of an export is recording and no
\* offscreen video is attached, and while it is true the offscreen video of
\* the job under way (the newest job) is attached, so that its draw loop can
\* reach the end of the video.
C28_ExportingIffLive ==
    /\ ~isExporting =>
          \A j \in Jobs : jobs[j].recorder # "recording" /\ jobs[j].video # "attached"
    /\ isExporting => (NewestJob # 0 /\ jobs[NewestJob].video = "attached")

\* ---------------------------------------------------------------------
\* C29: whenever an artifact is stored in the export cache, every frame the
\* recorder of its job captured was drawn with exactly the segment list, the
\* view mode and the style that the stored fingerprint serializes, whatever
\* the view mode, the style and the segment store are by then.
KeyRenderInputs(key) == <<key[4], key[6], key[8]>>

InitStore == InitNorm

\* the first generation of a session stores the normalized answer
\* (ResponseParsed), a later one the list generated for its file
NextStore ==
    \/ ProcessSelectedFile
    \/ ExecuteGeneration
    \/ ReceiveSegment
    \/ \E f \in 1..MaxFiles : GenerationAnalyzing(f)
    \/ \E f \in 1..MaxFiles : ResponseParsed(f)
    \/ \E f \in 1..MaxFiles : normPc = "loaded" /\ GenerationCompleted(f)
    \/ \E f \in 1..MaxFiles : GenerationFailed(f)

SpecStore == InitStore /\ [][NextStore]_vars

\* the call made for file f resolves in this step and stores its whole result
CompletionStep(f) ==
    /\ generations[f] = "analyzing"
    /\ generations'[f] = "none"
    /\ status' = "completed"
    /\ subtitles' \in {PostProcessSubtitles(rawSubtitles), GenResult(f)}

\* another source video is selected in this step and the store is emptied
SelectionStep == videoUrl' # videoUrl /\ subtitles' = <<>>

\* a generation that fails leaves the store alone and sets the status to error
FailureKeepsStore ==
    \A f \in 1..MaxFiles : GenerationFailed(f) => (subtitles' = subtitles /\ status' = "error")

\* C30 as stated: the segment store changes only in a step in which a
\* generation completes, which replaces it as a whole; a generation that
\* fails leaves the store as it was and sets the status to error.
C30_StoreChangesOnlyOnCompletion ==
    [][/\ subtitles' # subtitles => \E f \in 1..MaxFiles : CompletionStep(f)
       /\ FailureKeepsStore]_vars

\* C30 as amended: the segment store changes only in a step in which a
\* generation completes, which replaces it as a whole, or in which another
\* source video is selected, which empties it; a generation that fails
\* leaves the store as it was and sets the status to error.
C30_StoreChangesOnCompletionOrSelection ==
    [][/\ subtitles' # subtitles =>
             (SelectionStep \/ \E f \in 1..MaxFiles : CompletionStep(f))
       /\ FailureKeepsStore]_vars

\* a regeneration has failed: the status is error, no call is pending, and
\* the store still holds the segments of the earlier generation
C30_Witness ==
    /\ status = "error"
    /\ \A f \in 1..MaxFiles : generations[f] = "none"
    /\ videoUrl # 0
    /\ subtitles # <<>>
    /\ normPc = "loaded"

====
